---- MODULE Spec2Model ----
(***************************************************************************)
(* Model of the trait combination engine of rust-nft-generator             *)
(* (src/src/main.rs).  Strings are sequences of one-character strings, so  *)
(* that splitting, prefix tests, parsing and sorting are computed the way  *)
(* the code computes them.                                                 *)
(***************************************************************************)
EXTENDS Integers, Sequences, FiniteSets, TLC

VARIABLES
    pc,                 \* position of the running function
    call,               \* the arguments of the function under analysis
    ret,                \* its return value (NoRet while it has not returned)
    overflow_checks,    \* build profile: TRUE = debug (overflow panics), FALSE = release (wraps)
    layers,             \* generate_permutations: the layer set
    total_supply,       \* generate_permutations: the target count
    permutations,       \* generate_permutations: HashMap<u64, Vec<String>>
    seen_permutations,  \* generate_permutations: HashSet<Vec<String>>
    main_pc,            \* main: its position while it runs or waits for a callee
    main_permutations,  \* main: permutations, HashMap<u64, Vec<String>>
    remaining_layers_for_next_combinations,
    not_included_layers,
    included_layers,
    possible_permutations,
    layer_count,
    rest_of_items_percentage,
    forced_index        \* main: position of forced_combination_item in the list

genvars == <<layers, total_supply, permutations, seen_permutations>>

mainvars == <<main_pc, main_permutations, remaining_layers_for_next_combinations,
              not_included_layers, included_layers, possible_permutations,
              layer_count, rest_of_items_percentage, forced_index>>

vars == <<pc, call, ret, overflow_checks, genvars, mainvars>>

----------------------------------------------------------------------------
(* Bounds of the model *)

\* u64 scaled to this many bits, so that TLC's integers can hold it
U64Bits == 8
\* usize scaled to this many bits
UsizeBits == 4
\* longest layer given to calculate_weights_and_total
MaxOpts == 3
\* the 64-bit fingerprint scaled to this many values, so that the collisions
\* a 64-bit hash permits do occur
HashSpace == 7
\* most layers in a layer set given to generate_permutations
MaxLayers == 2
\* largest target given to generate_permutations
MaxTarget == 4
\* most layers in a layer set given to get_permutations
MaxCountLayers == 3
\* most layer folders given to compare_and_verify_traits
MaxTraits == 3
\* u32 scaled to this many bits
U32Bits == 10
\* largest total_supply of a configuration given to main
MaxSupply == 5

----------------------------------------------------------------------------
(* Strings *)

\* the characters used, in byte order
Ascii == <<"#", "*", ".", "/", "0", "1", "2", "3", "4", "5", "6", "7", "8", "9",
           "F", "H", "R", "X", "Y", "a", "b", "c", "d", "e", "f", "g", "h", "i",
           "m", "n", "p", "r", "s", "x", "y", "z">>

Code(c) == CHOOSE i \in 1..Len(Ascii) : Ascii[i] = c

Digits == {"0", "1", "2", "3", "4", "5", "6", "7", "8", "9"}

DigitVal(c) == Code(c) - Code("0")

RECURSIVE Pow2(_)
Pow2(n) == IF n = 0 THEN 1 ELSE 2 * Pow2(n - 1)

U64Max == Pow2(U64Bits) - 1
UsizeMax == Pow2(UsizeBits) - 1

\* s starts with prefix p (str::starts_with)
StartsWith(s, p) == Len(p) <= Len(s) /\ SubSeq(s, 1, Len(p)) = p

\* the sequences over S of length at most n
SeqsUpTo(S, n) == UNION {[1..k -> S] : k \in 0..n}

\* the sequences of SeqsUpTo(S, n) that repeat no element
InjSeqsUpTo(S, n) == {q \in SeqsUpTo(S, n) : \A i, j \in 1..Len(q) : q[i] = q[j] => i = j}

NoRet == [tag |-> "none"]
Panic == [tag |-> "panic"]

----------------------------------------------------------------------------
(* calculate_weights_and_total, main.rs 199-219 *)

\* the last index of the run of digits that starts at i (i - 1 when there is none)
RECURSIVE DigitRunEnd(_, _)
DigitRunEnd(s, i) ==
    IF i <= Len(s) /\ s[i] \in Digits THEN DigitRunEnd(s, i + 1) ELSE i - 1

\* RE_WEIGHT.captures_iter(..) with the leading '#' trimmed: the digit run
\* (possibly empty) after every '#', left to right
RECURSIVE WeightOccurrences(_, _)
WeightOccurrences(s, i) ==
    IF i > Len(s) THEN <<>>
    ELSE IF s[i] = "#"
         THEN LET j == DigitRunEnd(s, i + 1)
              IN  <<SubSeq(s, i + 1, j)>> \o WeightOccurrences(s, j + 1)
         ELSE WeightOccurrences(s, i + 1)

\* str::parse::<u64>: -1 stands for Err (no digit, or the value does not fit)
RECURSIVE ParseDigits(_, _, _)
ParseDigits(run, i, acc) ==
    IF acc = -1 THEN -1
    ELSE IF i > Len(run) THEN acc
    ELSE LET v == acc * 10 + DigitVal(run[i])
         IN  ParseDigits(run, i + 1, IF v > U64Max THEN -1 ELSE v)

ParseU64(run) == IF run = <<>> THEN -1 ELSE ParseDigits(run, 1, 0)

\* u64 addition: an overflow panics with overflow checks (-1), wraps without
AddU64(a, b, checks) ==
    IF a = -1 \/ b = -1 THEN -1
    ELSE IF a + b > U64Max THEN (IF checks THEN -1 ELSE (a + b) % (U64Max + 1))
    ELSE a + b

RECURSIVE SumU64(_, _, _)
SumU64(vals, i, checks) ==
    IF i > Len(vals) THEN 0
    ELSE AddU64(vals[i], SumU64(vals, i + 1, checks), checks)

\* accumulated_weight of one identifier: the sum of its parsed markers, the
\* .unwrap() of a failed parse being a panic (-1)
AccumulatedWeight(image_filename, checks) ==
    LET occ == WeightOccurrences(image_filename, 1)
        parsed == [k \in 1..Len(occ) |-> ParseU64(occ[k])]
    IN  IF \E k \in 1..Len(occ) : parsed[k] = -1 THEN -1
        ELSE SumU64(parsed, 1, checks)

\* CalcFrom pushing each option's own weight instead of the running total
RECURSIVE CalcFromOwnWeight(_, _, _, _, _)
CalcFromOwnWeight(layer, i, total_weight, weights, checks) ==
    IF i > Len(layer)
    THEN [tag |-> "ok", weights |-> weights, total_weight |-> total_weight]
    ELSE LET w == AccumulatedWeight(layer[i], checks)
             t == AddU64(total_weight, w, checks)
         IN  IF t = -1 THEN Panic
             ELSE CalcFromOwnWeight(layer, i + 1, t, Append(weights, w), checks)

\* the loop of calculate_weights_and_total from option i on
RECURSIVE CalcFrom(_, _, _, _, _)
CalcFrom(layer, i, total_weight, weights, checks) ==
    IF i > Len(layer)
    THEN [tag |-> "ok", weights |-> weights, total_weight |-> total_weight]
    ELSE LET t == AddU64(total_weight, AccumulatedWeight(layer[i], checks), checks)
         IN  IF t = -1 THEN Panic
             ELSE CalcFrom(layer, i + 1, t, Append(weights, t), checks)

CalculateWeightsAndTotal(layer, checks) == CalcFrom(layer, 1, 0, <<>>, checks)

----------------------------------------------------------------------------
(* choose_image_with_precomputed_weights, main.rs 221-235 *)

\* weights.binary_search_by(|probe| probe.cmp(&random_value)), as 1-based
\* indices: any index holding the value when there is one (the standard
\* library leaves open which), else the insertion point
BinarySearch(weights, random_value) ==
    LET hits == {i \in 1..Len(weights) : weights[i] = random_value}
    IN  IF hits # {} THEN hits
        ELSE {Cardinality({i \in 1..Len(weights) : weights[i] < random_value}) + 1}

\* the outcomes of one call: Uniform::from(0..0) panics on the empty range
ChooseImage(layer, weights, total_weight) ==
    IF total_weight = 0 THEN {Panic}
    ELSE {IF idx > Len(layer) THEN Panic
          ELSE [tag |-> "chosen", random_value |-> r, chosen_index |-> idx,
                chosen |-> layer[idx]] :
          <<r, idx>> \in {x \in (0..(total_weight - 1)) \X (1..(Len(weights) + 1)) :
                           x[2] \in BinarySearch(weights, x[1])}}

----------------------------------------------------------------------------
(* compare_and_verify_traits, main.rs 153-197 *)

\* the name compared as it is, '#' suffix included
KeepWhole(s) == s

\* s.split('#').next(): s up to its first '#'
RECURSIVE UpToHash(_, _)
UpToHash(s, i) ==
    IF i > Len(s) \/ s[i] = "#" THEN SubSeq(s, 1, i - 1) ELSE UpToHash(s, i + 1)

SplitHashFirst(s) == UpToHash(s, 1)

\* the order of String: byte by byte, a proper prefix first
RECURSIVE StrLessFrom(_, _, _)
StrLessFrom(a, b, k) ==
    IF k > Len(b) THEN FALSE
    ELSE IF k > Len(a) THEN TRUE
    ELSE IF a[k] # b[k] THEN Code(a[k]) < Code(b[k])
    ELSE StrLessFrom(a, b, k + 1)

StrLess(a, b) == StrLessFrom(a, b, 1)

\* x put into the sorted sequence q
RECURSIVE InsertSorted(_, _)
InsertSorted(x, q) ==
    IF q = <<>> THEN <<x>>
    ELSE IF StrLess(x, Head(q)) THEN <<x>> \o q
    ELSE <<Head(q)>> \o InsertSorted(x, Tail(q))

\* Vec<String>::sort
RECURSIVE SortStrings(_)
SortStrings(q) ==
    IF q = <<>> THEN <<>> ELSE InsertSorted(q[Len(q)], SortStrings(SubSeq(q, 1, Len(q) - 1)))

\* item.trim_start_matches(base_path): the prefix removed as often as it occurs
RECURSIVE TrimStartMatches(_, _)
TrimStartMatches(item, base_path) ==
    IF base_path # <<>> /\ StartsWith(item, base_path)
    THEN TrimStartMatches(SubSeq(item, Len(base_path) + 1, Len(item)), base_path)
    ELSE item

Min(a, b) == IF a <= b THEN a ELSE b

\* strsim::levenshtein
Levenshtein(a, b) ==
    LET d[i \in 0..Len(a), j \in 0..Len(b)] ==
            IF i = 0 THEN j
            ELSE IF j = 0 THEN i
            ELSE Min(Min(d[i - 1, j] + 1, d[i, j - 1] + 1),
                     d[i - 1, j - 1] + (IF a[i] = b[j] THEN 0 ELSE 1))
    IN  d[Len(a), Len(b)]

\* the closure of sort_by_cached_key: the first index (0-based) of the
\* configured entry at the least distance from the trimmed item, 0 when
\* there is none
BestIndex(item, unordered_traits_by_config, base_path) ==
    LET score(index) == Levenshtein(unordered_traits_by_config[index],
                                    TrimStartMatches(item, base_path))
        n == Len(unordered_traits_by_config)
    IN  IF n = 0 THEN 0
        ELSE (CHOOSE index \in 1..n :
                 /\ \A other \in 1..n : score(index) <= score(other)
                 /\ \A other \in 1..(index - 1) : score(other) > score(index)) - 1

\* <<key, item>> put after the entries of q whose key is not greater
RECURSIVE InsertByKey(_, _)
InsertByKey(x, q) ==
    IF q = <<>> THEN <<x>>
    ELSE IF x[1] < Head(q)[1] THEN <<x>> \o q
    ELSE <<Head(q)>> \o InsertByKey(x, Tail(q))

RECURSIVE SortPairs(_)
SortPairs(q) ==
    IF q = <<>> THEN <<>> ELSE InsertByKey(q[Len(q)], SortPairs(SubSeq(q, 1, Len(q) - 1)))

\* sort_by_cached_key: a stable sort by the key best_index
SortByCachedKey(q, unordered_traits_by_config, base_path) ==
    LET sorted == SortPairs([i \in 1..Len(q) |->
                     <<BestIndex(q[i], unordered_traits_by_config, base_path), q[i]>>])
    IN  [i \in 1..Len(q) |-> sorted[i][2]]

InvalidTrait == [tag |-> "err", error |-> "InvalidTrait"]

CompareAndVerifyTraits(traits_by_path, traits_by_config, base_path) ==
    IF Len(traits_by_path) # Len(traits_by_config) THEN InvalidTrait
    ELSE LET treated == SortStrings([i \in 1..Len(traits_by_path) |->
                                        SplitHashFirst(traits_by_path[i])])
         IN  IF treated # SortStrings(traits_by_config) THEN InvalidTrait
             ELSE [tag |-> "ok",
                   value |-> SortByCachedKey(traits_by_path, traits_by_config, base_path)]

----------------------------------------------------------------------------
(* get_permutations, main.rs 383-403 *)

None == [is_some |-> FALSE]
Some(v) == [is_some |-> TRUE, v |-> v]

\* Regex::new(pattern): the patterns modelled are made of literal characters
\* and '.', which matches any character; a pattern that starts with the
\* repetition operator '*' is rejected by the regex parser
RegexNewFails(pattern) == pattern # <<>> /\ pattern[1] = "*"

\* regex.is_match(item): the pattern matches somewhere in item
IsMatch(pattern, item) ==
    \E start \in 1..(Len(item) + 1) :
        /\ start + Len(pattern) - 1 <= Len(item)
        /\ \A k \in 1..Len(pattern) :
              pattern[k] = "." \/ pattern[k] = item[start + k - 1]

\* usize multiplication: an overflow panics with overflow checks (-1), wraps without
MulUsize(a, b, checks) ==
    IF a = -1 THEN -1
    ELSE IF a * b > UsizeMax THEN (IF checks THEN -1 ELSE (a * b) % (UsizeMax + 1))
    ELSE a * b

Max(a, b) == IF a >= b THEN a ELSE b

\* the factor of one layer: the options no pattern matches, at least 1
LayerValue(layer, skipped_traits) ==
    IF skipped_traits.is_some
    THEN Max(Cardinality({i \in 1..Len(layer) :
                 ~\E k \in 1..Len(skipped_traits.v) :
                      IsMatch(skipped_traits.v[k], layer[i])}), 1)
    ELSE Max(Len(layer), 1)

\* layers.iter().fold(1, |acc, layer| acc * value) from layer i on
RECURSIVE FoldLayers(_, _, _, _, _)
FoldLayers(ls, i, acc, skipped_traits, checks) ==
    IF i > Len(ls) THEN acc
    ELSE FoldLayers(ls, i + 1,
                    MulUsize(acc, LayerValue(ls[i], skipped_traits), checks),
                    skipped_traits, checks)

GetPermutations(ls, skipped_traits, checks) ==
    IF skipped_traits.is_some
       /\ \E k \in 1..Len(skipped_traits.v) : RegexNewFails(skipped_traits.v[k])
    THEN Panic
    ELSE LET n == FoldLayers(ls, 1, 1, skipped_traits, checks)
         IN  IF n = -1 THEN Panic ELSE [tag |-> "ok", value |-> n]

----------------------------------------------------------------------------
(* generate_permutations, main.rs 236-276 *)

Options(layer) == {layer[i] : i \in 1..Len(layer)}

\* layer_weights, main.rs 240-243
LayerWeights(ls, checks) == [i \in 1..Len(ls) |-> CalculateWeightsAndTotal(ls[i], checks)]

\* the options one iteration can take from a non-empty layer: any of them
\* when the total weight is 0 (layer.choose), else what the weighted sampler
\* can return (its index is always in range: the random value is below the
\* last cumulative entry)
Picks(layer, lw) ==
    IF lw.total_weight = 0 THEN {layer[i] : i \in 1..Len(layer)}
    ELSE {o.chosen : o \in {x \in ChooseImage(layer, lw.weights, lw.total_weight) :
                                x.tag = "chosen"}}

\* CurrentPermutations collecting the picks in the reverse of the layer order
RECURSIVE CurrentPermutationsReversed(_, _, _)
CurrentPermutationsReversed(ls, lws, i) ==
    IF i > Len(ls) THEN {<<>>}
    ELSE LET rest == CurrentPermutationsReversed(ls, lws, i + 1)
         IN  IF ls[i] = <<>> THEN rest
             ELSE {r \o <<p>> : p \in Picks(ls[i], lws[i]), r \in rest}

\* the values current_permutation can take: one pick per non-empty layer,
\* in layer order, an empty layer contributing nothing (filter_map None)
RECURSIVE CurrentPermutations(_, _, _)
CurrentPermutations(ls, lws, i) ==
    IF i > Len(ls) THEN {<<>>}
    ELSE LET rest == CurrentPermutations(ls, lws, i + 1)
         IN  IF ls[i] = <<>> THEN rest
             ELSE {<<p>> \o r : p \in Picks(ls[i], lws[i]), r \in rest}

RECURSIVE CodeSum(_)
CodeSum(str) == IF str = <<>> THEN 0 ELSE Code(Head(str)) + CodeSum(Tail(str))

\* DefaultHasher over the Vec<String>: a fingerprint that depends on the
\* options and their order, scaled to HashSpace values
RECURSIVE HashFrom(_, _)
HashFrom(perm, i) ==
    IF i > Len(perm) THEN 0
    ELSE (i * CodeSum(perm[i]) + 3 * HashFrom(perm, i + 1)) % HashSpace

Hash(perm) == HashFrom(perm, 1)

\* HashMap::insert: the entry of the same key is replaced
MapInsert(map, key, value) == {e \in map : e[1] # key} \cup {<<key, value>>}

\* the loop running until that many combinations were seen
LoopConditionSeen == Cardinality(seen_permutations) < total_supply

\* while permutations.len() < total_supply
LoopCondition == Cardinality(permutations) < total_supply

MapValues(map) == {e[2] : e \in map}

GenStart ==
    /\ pc = "generate_permutations"
    /\ pc' = IF \E i \in 1..Len(layers) : LayerWeights(layers, overflow_checks)[i] = Panic
             THEN "panicked" ELSE "loop"
    /\ UNCHANGED <<call, ret, overflow_checks, genvars, mainvars>>

\* one iteration of the loop whose draws give current_permutation
GenIterateWith(current_permutation) ==
    /\ pc = "loop"
    /\ LoopCondition
    /\ current_permutation \in
           CurrentPermutations(layers, LayerWeights(layers, overflow_checks), 1)
    /\ IF current_permutation \notin seen_permutations
       THEN /\ seen_permutations' = seen_permutations \cup {current_permutation}
            /\ permutations' = MapInsert(permutations, Hash(current_permutation),
                                         current_permutation)
       ELSE UNCHANGED <<seen_permutations, permutations>>
    /\ UNCHANGED <<pc, call, ret, overflow_checks, layers, total_supply, mainvars>>

GenIterate ==
    /\ pc = "loop"
    /\ \E current_permutation \in
            CurrentPermutations(layers, LayerWeights(layers, overflow_checks), 1) :
            GenIterateWith(current_permutation)

GenReturn ==
    /\ pc = "loop"
    /\ ~LoopCondition
    /\ pc' = "returned"
    /\ ret' = [tag |-> "ok", value |-> permutations]
    /\ UNCHANGED <<call, overflow_checks, genvars, mainvars>>

----------------------------------------------------------------------------
(* should_include_file, main.rs 426-482 *)

\* s.split('/'): the pieces between the separators, empty ones included
RECURSIVE SplitSlashFrom(_, _, _)
SplitSlashFrom(s, i, piece) ==
    IF i > Len(s) THEN <<piece>>
    ELSE IF s[i] = "/" THEN <<piece>> \o SplitSlashFrom(s, i + 1, <<>>)
    ELSE SplitSlashFrom(s, i + 1, Append(piece, s[i]))

SplitSlash(s) == SplitSlashFrom(s, 1, <<>>)

CurDir == <<".">>
ParentDir == <<".", ".">>

\* Path::components of a relative path: empty pieces and every '.' but a
\* leading one are dropped
PathComponents(s) ==
    LET parts == SplitSlash(s)
        keep(i) == parts[i] # <<>> /\ (parts[i] = CurDir => i = 1)
        RECURSIVE Kept(_)
        Kept(i) == IF i > Len(parts) THEN <<>>
                   ELSE IF keep(i) THEN <<parts[i]>> \o Kept(i + 1)
                   ELSE Kept(i + 1)
    IN  Kept(1)

\* Path::parent on components: None for the empty path
PathParent(comps) ==
    IF comps = <<>> THEN None ELSE Some(SubSeq(comps, 1, Len(comps) - 1))

\* Path::file_name on components: the last one when it is a normal name
PathFileName(comps) ==
    IF comps = <<>> \/ comps[Len(comps)] \in {CurDir, ParentDir} THEN None
    ELSE Some(comps[Len(comps)])

UnwrapOr(opt, default) == IF opt.is_some THEN opt.v ELSE default

\* path.parent().and_then(|p| p.file_name())
ParentFileName(comps) ==
    IF PathParent(comps).is_some THEN PathFileName(PathParent(comps).v) ELSE None

\* path.parent().and_then(|p| p.parent())
PathGrandparent(comps) ==
    IF PathParent(comps).is_some THEN PathParent(PathParent(comps).v) ELSE None

\* parent, main.rs 433-437
ParentName(file_path, base_path) ==
    UnwrapOr(ParentFileName(PathComponents(file_path)), base_path)

\* grandparent, main.rs 439-444
GrandparentName(file_path, base_path) ==
    LET grandparent == PathGrandparent(PathComponents(file_path))
    IN  UnwrapOr(IF grandparent.is_some THEN PathFileName(grandparent.v) ELSE None,
                 base_path)

\* file_name, main.rs 446-448
FileNamePrefix(file_path) ==
    LET path_parts == SplitSlash(file_path)
    IN  SplitHashFirst(path_parts[Len(path_parts)])

\* target_layer_to_find, main.rs 450-454
TargetLayerToFind(file_path, base_path) ==
    IF GrandparentName(file_path, base_path) = base_path
    THEN ParentName(file_path, base_path)
    ELSE GrandparentName(file_path, base_path)

Simple(name) == [kind |-> "Simple", name |-> name]
Complex(main_layer, sub_layer) ==
    [kind |-> "Complex", mainLayer |-> main_layer, subLayer |-> sub_layer]

Star == <<"*">>

\* the closure of find, main.rs 456-462
RefersTo(fc, target_layer_to_find) ==
    IF fc.layer.kind = "Simple" THEN fc.layer.name = target_layer_to_find
    ELSE fc.layer.mainLayer = target_layer_to_find
            \/ fc.layer.subLayer = target_layer_to_find

\* the arm of a Simple rule, main.rs 466
SimpleMatch(fc, file_path, base_path) ==
    StartsWith(FileNamePrefix(file_path), fc.value)
        /\ ParentName(file_path, base_path) = fc.layer.name

\* the arm of a Complex rule, main.rs 467-478
ComplexMatch(fc, file_path, base_path) ==
    IF fc.value = Star
    THEN GrandparentName(file_path, base_path) = fc.layer.mainLayer
            /\ StartsWith(ParentName(file_path, base_path), fc.layer.subLayer)
    ELSE GrandparentName(file_path, base_path) = fc.layer.mainLayer
            /\ StartsWith(ParentName(file_path, base_path), fc.layer.subLayer)
            /\ StartsWith(FileNamePrefix(file_path), fc.value)

ShouldIncludeFile(forced_combinations, file_path, base_path) ==
    LET target == TargetLayerToFind(file_path, base_path)
        found == {i \in 1..Len(forced_combinations) :
                     RefersTo(forced_combinations[i], target)}
    IN  IF found = {} THEN TRUE
        ELSE LET fc == forced_combinations[CHOOSE i \in found : \A j \in found : i <= j]
             IN  IF fc.layer.kind = "Simple"
                 THEN SimpleMatch(fc, file_path, base_path)
                 ELSE ComplexMatch(fc, file_path, base_path)

----------------------------------------------------------------------------
(* main from the layers it has read, main.rs 505-596; call holds the
   configuration and all_layers *)

U32Max == Pow2(U32Bits) - 1

\* u32 * u32: -1 is the overflow panic of a debug build
MulU32(a, b, checks) ==
    IF a * b > U32Max THEN (IF checks THEN -1 ELSE (a * b) % (U32Max + 1))
    ELSE a * b

\* usize += usize
AddUsize(a, b, checks) ==
    IF a + b > UsizeMax THEN (IF checks THEN -1 ELSE (a + b) % (UsizeMax + 1))
    ELSE a + b

\* u32::saturating_sub
SaturatingSub(a, b) == IF a >= b THEN a - b ELSE 0

\* total_percentage, main.rs 513-517
RECURSIVE TotalPercentage(_, _)
TotalPercentage(forced_combinations, i) ==
    IF i > Len(forced_combinations) THEN 0
    ELSE forced_combinations[i].percentage + TotalPercentage(forced_combinations, i + 1)

\* the files should_include_file accepts (keep = TRUE) or rejects, main.rs 535-546
RECURSIVE Partition(_, _, _, _, _)
Partition(layer_data, i, combo, base_path, keep) ==
    IF i > Len(layer_data) THEN <<>>
    ELSE IF ShouldIncludeFile(combo, layer_data[i], base_path) = keep
    THEN <<layer_data[i]>> \o Partition(layer_data, i + 1, combo, base_path, keep)
    ELSE Partition(layer_data, i + 1, combo, base_path, keep)

\* included_layers after the loop over all_layers, main.rs 531-550
IncludedLayers(all, combo, base_path) ==
    [l \in 1..Len(all) |-> Partition(all[l], 1, combo, base_path, TRUE)]

\* what that loop pushes on not_included_layers
NotIncludedLayers(all, combo, base_path) ==
    [l \in 1..Len(all) |-> Partition(all[l], 1, combo, base_path, FALSE)]

\* the zip of main.rs 552-562: position l takes entry l of not_included when
\* there is one and it is not empty
ZipRemaining(remaining, not_included) ==
    [l \in 1..Len(remaining) |->
        IF l <= Len(not_included) /\ not_included[l] # <<>>
        THEN not_included[l] ELSE remaining[l]]

\* HashMap::extend
RECURSIVE MapExtend(_, _)
MapExtend(map, other) ==
    IF other = {} THEN map
    ELSE LET e == CHOOSE x \in other : TRUE
         IN  MapExtend(MapInsert(map, e[1], e[2]), other \ {e})

\* generate_permutations(ls, n) is entered
EnterGenerate(ls, n) ==
    /\ layers' = ls
    /\ total_supply' = n
    /\ permutations' = {}
    /\ seen_permutations' = {}
    /\ pc' = "generate_permutations"

\* main.rs 512-525: the percentages are summed and, above 100, an error
\* value is built that nothing returns
MainCheckPercentage ==
    /\ pc = "main"
    /\ main_pc = "start"
    /\ LET total_percentage == TotalPercentage(call.config.forced_combinations, 1)
           error == IF total_percentage > 100 THEN "TotalPercentageExceeded" ELSE "none"
       IN  main_pc' = IF call.config.forced_combinations # <<>>
                      THEN "for_forced_combination" ELSE "no_forced_combination"
    /\ forced_index' = 1
    /\ not_included_layers' = <<>>
    /\ UNCHANGED <<pc, call, ret, overflow_checks, genvars, main_permutations,
                   remaining_layers_for_next_combinations, included_layers,
                   possible_permutations, layer_count, rest_of_items_percentage>>

\* main.rs 527-572: one rule is partitioned, its quota computed and
\* generate_permutations called for it
MainForcedCombination ==
    /\ pc = "main"
    /\ main_pc = "for_forced_combination"
    /\ LET item == call.config.forced_combinations[forced_index]
           included == IncludedLayers(call.all_layers, item.combo, call.config.base_path)
           pushed == not_included_layers \o
                        NotIncludedLayers(call.all_layers, item.combo,
                                          call.config.base_path)
           product == MulU32(call.config.total_supply, item.percentage, overflow_checks)
           total_items_percentage == product \div 100
       IN  /\ included_layers' = included
           /\ not_included_layers' = pushed
           /\ remaining_layers_for_next_combinations' =
                  ZipRemaining(remaining_layers_for_next_combinations, pushed)
           /\ IF product = -1
              THEN /\ pc' = "panicked"
                   /\ UNCHANGED <<genvars, rest_of_items_percentage, main_pc>>
              ELSE /\ rest_of_items_percentage' =
                          SaturatingSub(rest_of_items_percentage, total_items_percentage)
                   /\ EnterGenerate(included, total_items_percentage)
                   /\ main_pc' = "forced_quota"
    /\ UNCHANGED <<call, ret, overflow_checks, main_permutations,
                   possible_permutations, layer_count, forced_index>>

\* main.rs 569-577: the quota is merged, the count added, the loop goes on
MainExtendForced ==
    /\ pc = "returned"
    /\ main_pc = "forced_quota"
    /\ main_permutations' = MapExtend(main_permutations, ret.value)
    /\ LET count == GetPermutations(included_layers, call.config.skipped_traits,
                                    overflow_checks)
           sum == IF count = Panic THEN -1
                  ELSE AddUsize(possible_permutations, count.value, overflow_checks)
       IN  IF sum = -1
           THEN /\ pc' = "panicked"
                /\ UNCHANGED <<possible_permutations, layer_count, forced_index, main_pc>>
           ELSE /\ possible_permutations' = sum
                /\ layer_count' = Len(remaining_layers_for_next_combinations)
                /\ forced_index' = forced_index + 1
                /\ main_pc' = IF forced_index < Len(call.config.forced_combinations)
                              THEN "for_forced_combination" ELSE "residual"
                /\ pc' = "main"
    /\ ret' = NoRet
    /\ UNCHANGED <<call, overflow_checks, genvars,
                   remaining_layers_for_next_combinations, not_included_layers,
                   included_layers, rest_of_items_percentage>>

\* main.rs 579-582: generate_permutations is called for the rest
MainResidual ==
    /\ pc = "main"
    /\ main_pc = "residual"
    /\ EnterGenerate(remaining_layers_for_next_combinations, rest_of_items_percentage)
    /\ main_pc' = "residual_quota"
    /\ UNCHANGED <<call, ret, overflow_checks, main_permutations,
                   remaining_layers_for_next_combinations, not_included_layers,
                   included_layers, possible_permutations, layer_count,
                   rest_of_items_percentage, forced_index>>

MainExtendResidual ==
    /\ pc = "returned"
    /\ main_pc = "residual_quota"
    /\ main_permutations' = MapExtend(main_permutations, ret.value)
    /\ main_pc' = "report"
    /\ pc' = "main"
    /\ ret' = NoRet
    /\ UNCHANGED <<call, overflow_checks, genvars,
                   remaining_layers_for_next_combinations, not_included_layers,
                   included_layers, possible_permutations, layer_count,
                   rest_of_items_percentage, forced_index>>

\* main.rs 584: without rules generate_permutations is called for all_layers
MainNoForcedCombination ==
    /\ pc = "main"
    /\ main_pc = "no_forced_combination"
    /\ EnterGenerate(call.all_layers, call.config.total_supply)
    /\ main_pc' = "all_quota"
    /\ UNCHANGED <<call, ret, overflow_checks, main_permutations,
                   remaining_layers_for_next_combinations, not_included_layers,
                   included_layers, possible_permutations, layer_count,
                   rest_of_items_percentage, forced_index>>

\* main.rs 584-586
MainAssignAll ==
    /\ pc = "returned"
    /\ main_pc = "all_quota"
    /\ main_permutations' = ret.value
    /\ LET count == GetPermutations(call.all_layers, call.config.skipped_traits,
                                    overflow_checks)
       IN  IF count = Panic
           THEN /\ pc' = "panicked"
                /\ UNCHANGED <<possible_permutations, layer_count, main_pc>>
           ELSE /\ possible_permutations' = count.value
                /\ layer_count' = Len(call.all_layers)
                /\ main_pc' = "report"
                /\ pc' = "main"
    /\ ret' = NoRet
    /\ UNCHANGED <<call, overflow_checks, genvars,
                   remaining_layers_for_next_combinations, not_included_layers,
                   included_layers, rest_of_items_percentage, forced_index>>

\* main.rs 588-596: the count is printed and, when it is below the supply,
\* an error value is built that nothing returns; main goes on to compose
\* the images
MainReport ==
    /\ pc = "main"
    /\ main_pc = "report"
    /\ LET error == IF possible_permutations < call.config.total_supply
                    THEN "InvalidTotalSupply" ELSE "none"
       IN  main_pc' = "compose"
    /\ UNCHANGED <<pc, call, ret, overflow_checks, genvars, main_permutations,
                   remaining_layers_for_next_combinations, not_included_layers,
                   included_layers, possible_permutations, layer_count,
                   rest_of_items_percentage, forced_index>>

----------------------------------------------------------------------------
(* Identifiers given to the weight functions *)

IdA == <<"a">>
IdB1 == <<"b", "#", "1">>
IdC2 == <<"c", "#", "2">>
IdNoDigits == <<"d", "#", ".", "p">>
IdTwoMarkers == <<"e", "#", "1", "/", "f", "#", "2">>
IdBig == <<"x", "#", "2", "0", "0">>

\* the layer of test_calculate_weights_and_total, main.rs 900-905
Image100 == <<"i", "m", "g", "#", "1", "0", "0", ".", "p", "n", "g">>
Image25 == <<"i", "m", "g", "#", "2", "5", ".", "p", "n", "g">>
Image50 == <<"i", "m", "g", "#", "5", "0", ".", "p", "n", "g">>
ImageNoWeight == <<"i", "m", "g", ".", "p", "n", "g">>
TestLayer == <<Image100, Image25, Image50, ImageNoWeight>>

IdG == <<"g">>
IdH == <<"h">>
IdR == <<"r">>
IdS == <<"s">>
IdX == <<"x">>
IdY2 == <<"y", "#", "2">>
IdM1 == <<"m", "#", "1">>
IdN1 == <<"n", "#", "1">>

WeightIds == {IdA, IdB1, IdC2, IdNoDigits, IdTwoMarkers, IdBig}

WeightLayers == SeqsUpTo(WeightIds, MaxOpts) \cup {TestLayer}

GenIdle ==
    /\ layers = <<>>
    /\ total_supply = 0
    /\ permutations = {}
    /\ seen_permutations = {}

\* main is not running
MainIdle ==
    /\ main_pc = "idle"
    /\ main_permutations = {}
    /\ remaining_layers_for_next_combinations = <<>>
    /\ not_included_layers = <<>>
    /\ included_layers = <<>>
    /\ possible_permutations = 0
    /\ layer_count = 0
    /\ rest_of_items_percentage = 0
    /\ forced_index = 0

----------------------------------------------------------------------------
(* The weight functions called as test_calculate_weights_and_total and
   test_choose_image_with_precomputed_weights call them, main.rs 898-929 *)

InitWeights ==
    /\ pc = "calculate_weights_and_total"
    /\ call \in {[layer |-> l] : l \in WeightLayers}
    /\ ret = NoRet
    /\ overflow_checks \in BOOLEAN
    /\ GenIdle
    /\ MainIdle

CallCalculateWeights ==
    /\ pc = "calculate_weights_and_total"
    /\ ret' = CalculateWeightsAndTotal(call.layer, overflow_checks)
    /\ pc' = "choose_image_with_precomputed_weights"
    /\ UNCHANGED <<call, overflow_checks, genvars, mainvars>>

\* callers sample only a layer whose total weight is positive (main.rs 257)
CallChooseImage ==
    /\ pc = "choose_image_with_precomputed_weights"
    /\ ret.tag = "ok"
    /\ ret.total_weight > 0
    /\ \E out \in ChooseImage(call.layer, ret.weights, ret.total_weight) : ret' = out
    /\ call' = [layer |-> call.layer, weights |-> ret.weights,
                total_weight |-> ret.total_weight]
    /\ pc' = "chosen"
    /\ UNCHANGED <<overflow_checks, genvars, mainvars>>

NextWeights == CallCalculateWeights \/ CallChooseImage

SpecWeights == InitWeights /\ [][NextWeights]_vars

----------------------------------------------------------------------------
(* generate_permutations called as test_generate_permutations calls it,
   main.rs 765-789, over layer sets of distinct options *)

LayerEmpty == <<>>
LayerOne == <<IdA>>
LayerUniform == <<IdG, IdH>>
LayerUniform2 == <<IdR, IdS>>
LayerWeighted == <<IdB1, IdC2>>
LayerMixed == <<IdX, IdY2>>
LayerEqual == <<IdM1, IdN1>>
LayerNoDigits == <<IdNoDigits>>

GenLayerPool == {LayerEmpty, LayerOne, LayerUniform, LayerUniform2, LayerWeighted,
                 LayerMixed, LayerEqual, LayerNoDigits}

GenLayerSets == InjSeqsUpTo(GenLayerPool, MaxLayers)

InitGen ==
    /\ pc = "generate_permutations"
    /\ call = [fn |-> "generate_permutations"]
    /\ ret = NoRet
    /\ overflow_checks \in BOOLEAN
    /\ layers \in GenLayerSets
    /\ total_supply \in 0..MaxTarget
    /\ permutations = {}
    /\ seen_permutations = {}
    /\ MainIdle

NextGen == GenStart \/ GenIterate \/ GenReturn

SpecGen == InitGen /\ [][NextGen]_vars

----------------------------------------------------------------------------
(* get_permutations called as test_get_combinations calls it, main.rs
   791-816, and with skip patterns as main does, main.rs 574 and 585 *)

CountLayerPool ==
    {<<>>, <<<<"1">>>>, <<<<"a">>, <<"b">>>>, <<<<"1">>, <<"2">>, <<"3">>>>,
     <<<<"a">>, <<"b">>, <<"c">>>>, <<<<"x">>, <<"y">>, <<"z">>>>}

SkipPool ==
    {None, Some(<<>>), Some(<<<<"a">>>>), Some(<<<<"a">>, <<"1">>>>),
     Some(<<<<".">>>>), Some(<<<<"*">>>>)}

InitCount ==
    /\ pc = "get_permutations"
    /\ call \in {[layers |-> ls, skipped_traits |-> sk] :
                    ls \in SeqsUpTo(CountLayerPool, MaxCountLayers), sk \in SkipPool}
    /\ ret = NoRet
    /\ overflow_checks \in BOOLEAN
    /\ GenIdle
    /\ MainIdle

CallGetPermutations ==
    /\ pc = "get_permutations"
    /\ ret' = GetPermutations(call.layers, call.skipped_traits, overflow_checks)
    /\ pc' = "counted"
    /\ UNCHANGED <<call, overflow_checks, genvars, mainvars>>

NextCount == CallGetPermutations

SpecCount == InitCount /\ [][NextCount]_vars

----------------------------------------------------------------------------
(* compare_and_verify_traits called as main calls it, main.rs 496-503, and
   as test_compare_and_verify_traits does, main.rs 720-763: the discovered
   folders are distinct directory entries, the configured ones distinct *)

TraitB == <<"b">>
TraitBcd == <<"b", "c", "d">>
TraitBHashCd == <<"b", "#", "c", "d">>
TraitAA == <<"a", "/", "a">>
TraitAB == <<"a", "/", "b">>

TraitPool == {TraitB, TraitBcd, TraitBHashCd, TraitAA, TraitAB}

BasePathPool == {<<"a", "/">>, <<".", "/", "i">>}

InitTraits ==
    /\ pc = "compare_and_verify_traits"
    /\ call \in {[traits_by_path |-> tp, traits_by_config |-> tc, base_path |-> bp] :
                    tp \in InjSeqsUpTo(TraitPool, MaxTraits),
                    tc \in InjSeqsUpTo(TraitPool, MaxTraits),
                    bp \in BasePathPool}
    /\ ret = NoRet
    /\ overflow_checks = FALSE
    /\ GenIdle
    /\ MainIdle

CallCompareAndVerifyTraits ==
    /\ pc = "compare_and_verify_traits"
    /\ ret' = CompareAndVerifyTraits(call.traits_by_path, call.traits_by_config,
                                     call.base_path)
    /\ pc' = "verified"
    /\ UNCHANGED <<call, overflow_checks, genvars, mainvars>>

NextTraits == CallCompareAndVerifyTraits

SpecTraits == InitTraits /\ [][NextTraits]_vars

----------------------------------------------------------------------------
(* should_include_file called as main calls it, main.rs 537-541, and as
   test_should_include_file calls it, main.rs 634-675; the names of the test
   are shortened: i for images, F for Face, H for Hair, b#7 for Black#700,
   r#5 for Red#500 *)

FaceX == <<".", "/", "i", "/", "F", "/", "X", "#", "1", ".", "p">>
FaceY == <<".", "/", "i", "/", "F", "/", "Y", "#", "2", ".", "p">>
FaceXY == <<".", "/", "i", "/", "F", "/", "X", "Y", "#", "1", ".", "p">>
HairBlack == <<".", "/", "i", "/", "H", "/", "b", "#", "7", "/", "s", "#", "2", ".", "p">>
HairRed == <<".", "/", "i", "/", "H", "/", "r", "#", "5", "/", "s", "#", "1", ".", "p">>
HairBlackSx == <<".", "/", "i", "/", "H", "/", "b", "#", "7", "/", "s", "x", "#", "1", ".", "p">>
RelFaceX == <<"i", "/", "F", "/", "X", "#", "1", ".", "p">>
RelFaceY == <<"i", "/", "F", "/", "Y", "#", "2", ".", "p">>
RelFaceXY == <<"i", "/", "F", "/", "X", "Y", "#", "1", ".", "p">>
RelHairBlack == <<"i", "/", "H", "/", "b", "#", "7", "/", "s", "#", "2", ".", "p">>
RelHairRed == <<"i", "/", "H", "/", "r", "#", "5", "/", "s", "#", "1", ".", "p">>

FilePool == {FaceX, FaceY, FaceXY, HairBlack, HairRed, HairBlackSx,
             RelFaceX, RelFaceY, RelFaceXY, RelHairBlack, RelHairRed}

Face == <<"F">>
Hair == <<"H">>
Black == <<"b", "#", "7">>

FaceIsX == [layer |-> Simple(Face), value |-> <<"X">>]
FaceIsY == [layer |-> Simple(Face), value |-> <<"Y">>]
HairIsBlack == [layer |-> Complex(Hair, Black), value |-> Star]
HairIsBlackS == [layer |-> Complex(Hair, Black), value |-> <<"s">>]

ComboPool == {<<>>, <<FaceIsX>>, <<FaceIsY>>, <<HairIsBlack>>, <<HairIsBlackS>>,
              <<FaceIsX, HairIsBlack>>, <<FaceIsY, FaceIsX>>}

\* "i" as the test passes it, "./i/" and "i/" as main passes them when the
\* layer folders of the configuration are bare names
IncludeBasePool == {<<"i">>, <<".", "/", "i", "/">>, <<"i", "/">>}

InitInclude ==
    /\ pc = "should_include_file"
    /\ call \in {[forced_combinations |-> fcs, file_path |-> fp, base_path |-> bp] :
                    fcs \in ComboPool, fp \in FilePool, bp \in IncludeBasePool}
    /\ ret = NoRet
    /\ overflow_checks = FALSE
    /\ GenIdle
    /\ MainIdle

CallShouldIncludeFile ==
    /\ pc = "should_include_file"
    /\ ret' = [tag |-> "ok",
               value |-> ShouldIncludeFile(call.forced_combinations, call.file_path,
                                           call.base_path)]
    /\ pc' = "included"
    /\ UNCHANGED <<call, overflow_checks, genvars, mainvars>>

NextInclude == CallShouldIncludeFile

SpecInclude == InitInclude /\ [][NextInclude]_vars

----------------------------------------------------------------------------
(* main run on a configuration and the layers read under its base path,
   main.rs 484-596 *)

HalfFaceX == [combo |-> <<FaceIsX>>, percentage |-> 50]
HalfFaceY == [combo |-> <<FaceIsY>>, percentage |-> 50]
HalfBlack == [combo |-> <<HairIsBlack>>, percentage |-> 50]
AllFaceXBlack == [combo |-> <<FaceIsX, HairIsBlack>>, percentage |-> 100]

ForcedPool == {<<>>, <<HalfFaceX>>, <<HalfFaceY>>, <<AllFaceXBlack>>,
               <<HalfFaceX, HalfFaceY>>, <<HalfFaceX, HalfFaceX>>,
               <<HalfBlack, HalfFaceX>>, <<AllFaceXBlack, HalfFaceY>>}

\* a base path and what get_layers_by_traits reads under it
ReadPool ==
    {[base_path |-> <<".", "/", "i", "/">>,
      all_layers |-> <<<<FaceX, FaceY>>, <<HairBlack, HairRed>>>>],
     [base_path |-> <<"i">>,
      all_layers |-> <<<<RelFaceX, RelFaceY>>, <<RelHairBlack, RelHairRed>>>>],
     [base_path |-> <<"i">>,
      all_layers |-> <<<<RelFaceX, RelFaceXY>>, <<RelHairBlack, RelHairRed>>>>]}

MainSkipPool == {None, Some(<<<<"Y">>>>)}

\* the least total_supply whose product with 100 is above u32::MAX
BigSupply == U32Max \div 100 + 1

SupplyPool == (0..MaxSupply) \cup {BigSupply}

InitMain ==
    /\ pc = "main"
    /\ call \in {[config |-> [total_supply |-> n, base_path |-> rd.base_path,
                              forced_combinations |-> fcs, skipped_traits |-> sk],
                  all_layers |-> rd.all_layers] :
                    n \in SupplyPool, rd \in ReadPool, fcs \in ForcedPool,
                    sk \in MainSkipPool}
    /\ ret = NoRet
    /\ overflow_checks \in BOOLEAN
    /\ GenIdle
    /\ main_pc = "start"
    /\ main_permutations = {}
    /\ remaining_layers_for_next_combinations = call.all_layers
    /\ possible_permutations = 0
    /\ layer_count = 0
    /\ rest_of_items_percentage = call.config.total_supply
    /\ not_included_layers = <<>>
    /\ included_layers = <<>>
    /\ forced_index = 0

NextMain ==
    \/ MainCheckPercentage
    \/ MainForcedCombination
    \/ MainExtendForced
    \/ MainResidual
    \/ MainExtendResidual
    \/ MainNoForcedCombination
    \/ MainAssignAll
    \/ MainReport
    \/ GenStart
    \/ GenIterate
    \/ GenReturn

SpecMain == InitMain /\ [][NextMain]_vars

----------------------------------------------------------------------------
(* Claims about the weight functions *)

\* the weight markers written in each identifier, read off by hand
MarkerValues(id) ==
    CASE id = IdA -> <<>>
      [] id = IdB1 -> <<1>>
      [] id = IdC2 -> <<2>>
      [] id = IdTwoMarkers -> <<1, 2>>
      [] id = IdBig -> <<200>>
      [] id = Image100 -> <<100>>
      [] id = Image25 -> <<25>>
      [] id = Image50 -> <<50>>
      [] id = ImageNoWeight -> <<>>
      [] OTHER -> <<>>

RECURSIVE SumSeq(_)
SumSeq(q) == IF q = <<>> THEN 0 ELSE Head(q) + SumSeq(Tail(q))

\* an option's weight with no marker counting as d
WeightWithDefault(id, d) ==
    IF MarkerValues(id) = <<>> THEN d ELSE SumSeq(MarkerValues(id))

\* the sum of the weights of options 1..i
RECURSIVE PrefixWeight(_, _, _)
PrefixWeight(layer, i, d) ==
    IF i = 0 THEN 0 ELSE PrefixWeight(layer, i - 1, d) + WeightWithDefault(layer[i], d)

Calculated == pc = "choose_image_with_precomputed_weights" /\ ret.tag = "ok"

CumulativeTable(d, test_table) ==
    (Calculated /\ PrefixWeight(call.layer, Len(call.layer), 1) <= U64Max) =>
        /\ Len(ret.weights) = Len(call.layer)
        /\ \A i \in 1..Len(call.layer) : ret.weights[i] = PrefixWeight(call.layer, i, d)
        /\ ret.total_weight =
               (IF ret.weights = <<>> THEN 0 ELSE ret.weights[Len(ret.weights)])
        /\ call.layer = TestLayer =>
               ret.weights = test_table /\ ret.total_weight = test_table[4]

\* C6 as stated: the returned table is cumulative over weights that are the
\* sum of the option's markers and 1 for an option with no marker; the test
\* layer gives [100, 125, 175, 176] and 176.
C6_CumulativeDefaultOne == CumulativeTable(1, <<100, 125, 175, 176>>)

\* C6 amended: whenever calculate_weights_and_total returns and the weights'
\* sum fits the integer type, the table has the layer's length, entry i is
\* the sum of the weights of options 0..i, the total is the last entry (0 for
\* an empty layer), and an option with no marker weighs 0; the test layer
\* gives [100, 125, 175, 175] and 175.
C6_CumulativeDefaultZero == CumulativeTable(0, <<100, 125, 175, 175>>)

C6_Witness == Calculated /\ call.layer = TestLayer /\ ret.total_weight = 175

\* the random values for which option i can be returned
ValuesReturning(i) ==
    {out.random_value :
        out \in {o \in ChooseImage(call.layer, ret.weights, ret.total_weight) :
                    o.tag = "chosen" /\ o.chosen_index = i}}

\* the weight the table gives option i
TableWeight(i) == ret.weights[i] - (IF i = 1 THEN 0 ELSE ret.weights[i - 1])

\* C5: for a layer of positive total weight, the number of random values in
\* [0, total) for which option i is returned equals weight(i), for every i.
C5_ReturnedInProportion ==
    (Calculated /\ ret.total_weight > 0
        /\ PrefixWeight(call.layer, Len(call.layer), 0) <= U64Max) =>
        \A i \in 1..Len(call.layer) : Cardinality(ValuesReturning(i)) = TableWeight(i)

\* C13: calculate_weights_and_total returns a result for every list of
\* identifiers, whatever follows a '#'
C13_NeverPanics ==
    pc = "choose_image_with_precomputed_weights" => ret.tag = "ok"

----------------------------------------------------------------------------
(* Claims about generate_permutations *)

\* C1: when generate_permutations returns, the returned map holds exactly
\* total_supply entries and no two of them are the same ordered sequence of
\* options.
C1_ExactlyNDistinct ==
    pc = "returned" =>
        /\ Cardinality(ret.value) = total_supply
        /\ \A e1, e2 \in ret.value : e1[2] = e2[2] => e1 = e2

\* a return after two combinations collided on their fingerprint
C1_Witness ==
    /\ pc = "returned"
    /\ total_supply >= 2
    /\ Cardinality(seen_permutations) > Cardinality(ret.value)

\* the feasibility ceiling of the layer set, with no skip patterns
Ceiling == GetPermutations(layers, None, overflow_checks)

\* C2: when the target does not exceed the feasibility ceiling of the layer
\* set, the loop of generate_permutations terminates under fair random draws.
\* An iteration that draws a combination already seen changes nothing, so a
\* loop that terminates under fair draws never reaches a state in which the
\* loop condition holds and every combination the draws can give was seen.
C2_TerminatesWhenFeasible ==
    (pc = "loop" /\ LoopCondition /\ Ceiling.tag = "ok"
        /\ total_supply <= Ceiling.value) =>
        \E c \in CurrentPermutations(layers, LayerWeights(layers, overflow_checks), 1) :
            c \notin seen_permutations

\* C3 as stated: every combination produced has one element per layer of the
\* layer set, the i-th an option of layer i.
C3_OnePerLayer ==
    \A c \in seen_permutations :
        /\ Len(c) = Len(layers)
        /\ \A i \in 1..Len(c) : c[i] \in Options(layers[i])

NonEmptyLayers == SelectSeq(layers, LAMBDA l : l # <<>>)

\* C3 amended: every combination produced has one element per non-empty
\* layer of the layer set, the i-th an option of the i-th non-empty layer; an
\* empty layer contributes nothing.
C3_OnePerNonEmptyLayer ==
    \A c \in seen_permutations :
        /\ Len(c) = Len(NonEmptyLayers)
        /\ \A i \in 1..Len(c) : c[i] \in Options(NonEmptyLayers[i])

C3_Witness ==
    /\ pc = "returned"
    /\ Len(layers) = 2
    /\ layers[1] = <<>>
    /\ \E c \in seen_permutations : Len(c) = 1

\* C17: for every list of skip patterns, the value get_permutations gives
\* for the layer set is at least the number of distinct combinations the
\* generator has produced from it
C17_CountBoundsGenerator ==
    \A sk \in SkipPool :
        LET count == GetPermutations(layers, sk, overflow_checks)
        IN  count.tag = "ok" => Cardinality(seen_permutations) <= count.value

----------------------------------------------------------------------------
(* Claims about get_permutations *)

Skipped(item, skipped_traits) ==
    skipped_traits.is_some
        /\ \E k \in 1..Len(skipped_traits.v) : IsMatch(skipped_traits.v[k], item)

\* the product over the layers of max(1, options that match no skip pattern)
RECURSIVE ExactProduct(_, _)
ExactProduct(ls, skipped_traits) ==
    IF ls = <<>> THEN 1
    ELSE Max(1, Cardinality({i \in 1..Len(Head(ls)) :
                                ~Skipped(Head(ls)[i], skipped_traits)}))
         * ExactProduct(Tail(ls), skipped_traits)

ValidPatterns(skipped_traits) ==
    skipped_traits.is_some =>
        \A k \in 1..Len(skipped_traits.v) : ~RegexNewFails(skipped_traits.v[k])

\* C7: for every layer set and every list of (well-formed) skip patterns,
\* get_permutations returns exactly the product over the layers of max(1,
\* number of options that match no skip pattern), the exact mathematical
\* product also when it is very large (no wrap-around, no failure).
C7_ExactProduct ==
    (pc = "counted" /\ ValidPatterns(call.skipped_traits)) =>
        /\ ret.tag = "ok"
        /\ ret.value = ExactProduct(call.layers, call.skipped_traits)

----------------------------------------------------------------------------
(* Claims about compare_and_verify_traits *)

\* how often x occurs in q
Count(x, q) == Cardinality({i \in 1..Len(q) : q[i] = x})

\* s with everything from its first '#' on removed
Stripped(s) ==
    IF \E i \in 1..Len(s) : s[i] = "#"
    THEN SubSeq(s, 1, (CHOOSE i \in 1..Len(s) :
                          s[i] = "#" /\ \A j \in 1..(i - 1) : s[j] # "#") - 1)
    ELSE s

\* the stripped discovered names and the configured names are the same multiset
SameNames(discovered, configured) ==
    \A x \in TraitPool \cup {Stripped(t) : t \in TraitPool} :
        Count(x, [i \in 1..Len(discovered) |-> Stripped(discovered[i])])
            = Count(x, configured)

\* C8: compare_and_verify_traits returns an InvalidTrait error exactly when
\* the two lists differ in length or the sorted stripped discovered names
\* differ from the sorted configured names, and Ok in every other case.
C8_InvalidTraitExactly ==
    pc = "verified" =>
        /\ ret.tag \in {"ok", "err"}
        /\ ret.tag = "err" <=>
               \/ Len(call.traits_by_path) # Len(call.traits_by_config)
               \/ ~SameNames(call.traits_by_path, call.traits_by_config)
        /\ ret.tag = "err" => ret = InvalidTrait

\* a success on a discovered name that carries a '#' suffix
C8_Witness ==
    /\ pc = "verified"
    /\ ret.tag = "ok"
    /\ Len(call.traits_by_path) = 2
    /\ TraitBHashCd \in Options(call.traits_by_path)

\* C9: whenever compare_and_verify_traits succeeds, the returned list is a
\* permutation of the discovered list in which position i holds the
\* discovered entry whose suffix-stripped name is configured entry i.
C9_ConfiguredOrder ==
    (pc = "verified" /\ ret.tag = "ok") =>
        /\ Len(ret.value) = Len(call.traits_by_path)
        /\ \A x \in TraitPool : Count(x, ret.value) = Count(x, call.traits_by_path)
        /\ \A i \in 1..Len(ret.value) : Stripped(ret.value[i]) = call.traits_by_config[i]

----------------------------------------------------------------------------
(* Claims about should_include_file *)

\* the folder an option lies in and the part of its file name before '#'
OptionFolder(file_path) ==
    LET parts == SplitSlash(file_path)
    IN  IF Len(parts) < 2 THEN <<>> ELSE parts[Len(parts) - 1]

OptionValuePrefix(file_path) ==
    LET parts == SplitSlash(file_path)
    IN  UpToHash(parts[Len(parts)], 1)

\* C10: for a rule whose layer reference is a single name, an option is
\* reported as matched exactly when its parent folder is that name and the
\* part of its file name before '#' is the required value, for every option
\* path and every base path
C10_SimpleRuleMatches ==
    (/\ pc = "included"
     /\ Len(call.forced_combinations) = 1
     /\ call.forced_combinations[1].layer.kind = "Simple")
        => (ret.value <=>
               /\ OptionFolder(call.file_path) = call.forced_combinations[1].layer.name
               /\ OptionValuePrefix(call.file_path) = call.forced_combinations[1].value)

\* C11: for a rule whose layer reference is a (main, sub) pair, an option
\* under the folder main is reported as matched exactly when its parent
\* folder starts with sub, and the value is "*" or the part of its file name
\* before '#' is the required value
C11_ComplexRuleMatches ==
    (/\ pc = "included"
     /\ Len(call.forced_combinations) = 1
     /\ call.forced_combinations[1].layer.kind = "Complex"
     /\ Len(SplitSlash(call.file_path)) >= 3
     /\ SplitSlash(call.file_path)[Len(SplitSlash(call.file_path)) - 2]
            = call.forced_combinations[1].layer.mainLayer)
        => (ret.value <=>
               LET fc == call.forced_combinations[1]
               IN  /\ StartsWith(OptionFolder(call.file_path), fc.layer.subLayer)
                   /\ (fc.value = Star \/ OptionValuePrefix(call.file_path) = fc.value))

----------------------------------------------------------------------------
(* Claims about main *)

\* the folder above the folder an option lies in
OptionMainFolder(file_path) ==
    LET parts == SplitSlash(file_path)
    IN  IF Len(parts) < 3 THEN <<>> ELSE parts[Len(parts) - 2]

\* the option meets the constraint
Meets(file_path, fc) ==
    IF fc.layer.kind = "Simple"
    THEN /\ OptionFolder(file_path) = fc.layer.name
         /\ OptionValuePrefix(file_path) = fc.value
    ELSE /\ OptionMainFolder(file_path) = fc.layer.mainLayer
         /\ StartsWith(OptionFolder(file_path), fc.layer.subLayer)
         /\ (fc.value = Star \/ OptionValuePrefix(file_path) = fc.value)

\* the combination holds an option for every constraint of the rule
Satisfies(combination, combo) ==
    \A k \in 1..Len(combo) :
        \E i \in 1..Len(combination) : Meets(combination[i], combo[k])

\* every constraint of the rule is met by an option that was read
Satisfiable(combo) ==
    \A k \in 1..Len(combo) :
        \E l \in 1..Len(call.all_layers) : \E i \in 1..Len(call.all_layers[l]) :
            Meets(call.all_layers[l][i], combo[k])

\* C4: every combination generated for the quota of a rule satisfies every
\* constraint of that rule (of a rule each of whose constraints some option
\* that was read meets)
C4_QuotaSatisfiesRule ==
    (/\ main_pc = "forced_quota"
     /\ pc \in {"loop", "returned"}
     /\ Satisfiable(call.config.forced_combinations[forced_index].combo))
        => \A e \in permutations :
               Satisfies(e[2], call.config.forced_combinations[forced_index].combo)

\* the percentages of the rules sum to more than 100
PercentageExceeded == TotalPercentage(call.config.forced_combinations, 1) > 100

\* the supply asked for is above the count get_permutations gives for the
\* layers that were read
SupplyInfeasible ==
    LET count == GetPermutations(call.all_layers, call.config.skipped_traits,
                                 overflow_checks)
    IN  count # Panic /\ call.config.total_supply > count.value

\* C12: when the percentages sum to more than 100 or the supply exceeds the
\* feasibility count, generate_permutations is never called
C12_NoSamplingWhenInvalid ==
    (PercentageExceeded \/ SupplyInfeasible)
        => pc \notin {"generate_permutations", "loop", "returned"}

\* the options of layer l that the rule at position k leaves unmatched
Unmatched(k, l) ==
    Partition(call.all_layers[l], 1, call.config.forced_combinations[k].combo,
              call.config.base_path, FALSE)

\* C14: when the rule at position k has been processed, a layer with an
\* option the rule leaves unmatched has exactly those options as its
\* remaining set, and a layer the rule matches wholly keeps what it had
C14_RemainingAfterRule ==
    [][(main_pc = "for_forced_combination" /\ main_pc' = "forced_quota")
          => \A l \in 1..Len(call.all_layers) :
                 remaining_layers_for_next_combinations'[l] =
                     IF Unmatched(forced_index, l) # <<>>
                     THEN Unmatched(forced_index, l)
                     ELSE remaining_layers_for_next_combinations[l]]_vars

\* the combinations of one option per layer
RECURSIVE FullCombinations(_, _)
FullCombinations(all, l) ==
    IF l > Len(all) THEN {<<>>}
    ELSE {<<all[l][i]>> \o rest :
             i \in 1..Len(all[l]), rest \in FullCombinations(all, l + 1)}

\* no two of them share a fingerprint
FingerprintsDiffer ==
    \A a, b \in FullCombinations(call.all_layers, 1) : Hash(a) = Hash(b) => a = b

\* C15: when the quotas of the rules and the rest have been merged, the
\* result holds exactly total_supply distinct combinations (the percentages
\* summing to at most 100, every rule being one the options can satisfy,
\* and no two combinations sharing a fingerprint)
C15_MergedHoldsTotalSupply ==
    (/\ main_pc \in {"report", "compose"}
     /\ ~PercentageExceeded
     /\ FingerprintsDiffer
     /\ \A k \in 1..Len(call.config.forced_combinations) :
            Satisfiable(call.config.forced_combinations[k].combo))
        => /\ Cardinality(main_permutations) = call.config.total_supply
           /\ Cardinality(MapValues(main_permutations)) = call.config.total_supply

\* floor(total_supply * percentage / 100) of the rule at position k
FloorQuota(k) ==
    (call.config.total_supply * call.config.forced_combinations[k].percentage) \div 100

RECURSIVE SumFloorQuotas(_)
SumFloorQuotas(k) == IF k = 0 THEN 0 ELSE FloorQuota(k) + SumFloorQuotas(k - 1)

\* C16: the multiplication of the quota never fails, the quota asked of
\* generate_permutations for a rule is floor(total_supply * percentage / 100),
\* and the rest asked for after the rules is total_supply minus the quotas
\* (the percentages summing to at most 100)
C16_QuotaIsFloor ==
    /\ ~(pc = "panicked" /\ main_pc = "for_forced_combination")
    /\ (main_pc = "forced_quota" /\ pc = "generate_permutations")
          => total_supply = FloorQuota(forced_index)
    /\ (main_pc = "residual_quota" /\ pc = "generate_permutations"
            /\ ~PercentageExceeded)
          => total_supply = call.config.total_supply
                              - SumFloorQuotas(Len(call.config.forced_combinations))

====
